---- MODULE Spec2Model ----
(***************************************************************************)
(* A model of the OSW warehouse front end:                                 *)
(*   - AmazonSpApiService (src/src/types/index.ts, lines 252-542): the     *)
(*     credential-bearing HTTP wrapper with its request and response       *)
(*     interceptors, refreshAccessToken and the remote-call methods;       *)
(*   - the settings slice (src/src/store/slices/settingsSlice.ts, lines    *)
(*     1-170): its four thunks, the backend tables they read and write,    *)
(*     and its reducers;                                                   *)
(*   - enforceRateLimit and validateShipmentPlan of the service;           *)
(*   - the products slice (src/src/store/slices/productsSlice.ts) and the  *)
(*     shipments slice (src/unnamed/part_000) with their thunks and the    *)
(*     tables they query;                                                  *)
(*   - the auth slice (settingsSlice.ts, lines 171-279).                   *)
(* Each subsystem has its own specification (ApiSpec, SettingsSpec,        *)
(* RateLimitSpec, ValidationSpec, ProductsSpec, ShipmentsSpec, StoreSpec,  *)
(* AuthSpec); the variables of the other subsystems stay at their initial  *)
(* values.  The backend is a record store that generates row identifiers   *)
(* and enforces nothing else; .single() answers with the "no rows" error   *)
(* unless exactly one row matches.                                         *)
(***************************************************************************)
EXTENDS Integers, Sequences, FiniteSets, TLC

VARIABLES
    credentials,      \* AmazonSpApiService.credentials (NoCredentials or a credential set)
    lastRequestTime,  \* AmazonSpApiService.lastRequestTime
    req,              \* the logical calls made on the service, by call id
    now,              \* Date.now(), in milliseconds
    tokensIssued,     \* how many access tokens the refresh endpoint has issued
    lastCall,         \* the most recent outgoing HTTP call (what was on the wire)
    tables,           \* backend: table name -> set of rows
    nextId,           \* backend: next generated row identifier
    ops,              \* settings thunks in flight, by operation id
    settings,         \* the settings slice's state
    lastEvent,        \* the last action dispatched to the settings reducer
    limiter,          \* the invocations of enforceRateLimit, by caller
    validation,       \* the run of validateShipmentPlan
    backend,          \* the rows of the products, bundles, shipments and plans tables
    lastId,           \* the last id each table has assigned
    calls,            \* the thunks of the products and shipments slices dispatched so far
    productsState,    \* the state of the products slice
    shipmentsState,   \* the state of the shipments slice
    lastAction,       \* the last action dispatched to the products or shipments reducer
    auth,             \* the state of the auth slice
    authCalls         \* the thunks of the auth slice dispatched so far

apiVars == <<credentials, lastRequestTime, req, now, tokensIssued, lastCall>>
settingsVars == <<tables, nextId, ops, settings, lastEvent>>
crudVars == <<backend, lastId, calls, productsState, shipmentsState, lastAction>>
vars == <<credentials, lastRequestTime, req, now, tokensIssued, lastCall,
          tables, nextId, ops, settings, lastEvent, limiter, validation,
          backend, lastId, calls, productsState, shipmentsState, lastAction,
          auth, authCalls>>

\* What the actions of one subsystem leave alone.
outsideApi == <<settingsVars, limiter, validation, crudVars, auth, authCalls>>
outsideSettings == <<apiVars, limiter, validation, crudVars, auth, authCalls>>
outsideLimiter ==
    <<credentials, req, tokensIssued, lastCall, settingsVars, validation, crudVars,
      auth, authCalls>>
outsideValidation == <<apiVars, settingsVars, limiter, crudVars, auth, authCalls>>
outsideCrud == <<apiVars, settingsVars, limiter, validation, auth, authCalls>>
outsideAuth == <<apiVars, settingsVars, limiter, validation, crudVars>>

Null == "null"

(***************************************************************************)
(* Bounds of the model.                                                    *)
(***************************************************************************)
StartTime == 1000      \* Date.now() when the service is constructed
TickMs == 250          \* granularity of the clock
MaxTicks == 2          \* how many times the clock advances
ExpiresIn == 3600      \* expires_in of a refresh response, in seconds
MaxOps == 2            \* how many settings thunks are dispatched in a run
MaxSleepTicks == 6     \* how many clock ticks pass while callers are rate limited
MaxCalls == 2          \* how many products or shipments thunks are dispatched in a run
MaxItems == 3          \* how many items a shipment plan has at most

Reqs == {1, 2}

(***************************************************************************)
(* AmazonSpApiService                                                      *)
(***************************************************************************)
rateLimitDelay == 500

\* this.credentials = null: no credential set is held.
NoCredentials ==
    [sellerId |-> Null, refreshToken |-> "", accessToken |-> 0, accessTokenExpiry |-> 0]

\* Credential sets a caller may hand to setCredentials.  accessToken 0 is an
\* absent (undefined) access token, refreshToken "" a missing refresh token.
CredentialSets ==
    { [sellerId |-> "A", refreshToken |-> "rtA", accessToken |-> 1, accessTokenExpiry |-> 0],
      [sellerId |-> "A", refreshToken |-> "rtA", accessToken |-> 0, accessTokenExpiry |-> 0],
      [sellerId |-> "B", refreshToken |-> "",    accessToken |-> 2, accessTokenExpiry |-> 0],
      [sellerId |-> "B", refreshToken |-> "",    accessToken |-> 0, accessTokenExpiry |-> 0] }

\* Tokens the refresh endpoint issues are distinct from the preloaded ones.
FirstIssuedToken == 10

ClientMethods == {"getMarketplaceParticipations", "searchCatalogItems"}

\* What a call resolves or rejects with.  A response body and an error are
\* identified by the call and the send (1 = original, 2 = replay, ...) they
\* answer; a refresh error by the call whose interceptor ran the refresh.
NoResp == [kind |-> "none", status |-> 0, req |-> 0, send |-> 0]
Body(r, n) == [kind |-> "body", status |-> 200, req |-> r, send |-> n]
HttpError(r, n, st) == [kind |-> "http_error", status |-> st, req |-> r, send |-> n]
NetworkError(r, n) == [kind |-> "network_error", status |-> 0, req |-> r, send |-> n]
RefreshError(r) == [kind |-> "refresh_error", status |-> 0, req |-> r, send |-> 0]
NoRefreshTokenError == [kind |-> "no_refresh_token", status |-> 0, req |-> 0, send |-> 0]

\* Server answers to a send: 2xx, 401, another non-2xx, or no response at all.
Statuses == {200, 401, 500, 0}

ErrorOf(r, n, st) == IF st = 0 THEN NetworkError(r, n) ELSE HttpError(r, n, st)

IdleReq == [pc |-> "idle", method |-> Null, retry |-> FALSE, header |-> 0,
            sends |-> 0, refreshes |-> 0, refreshCalls |-> 0,
            statuses |-> <<>>, outcome |-> NoResp,
            rtSent |-> "", started |-> 0]

NoCall == [purpose |-> "none", via |-> "none", header |-> 0, held |-> NoCredentials]

\* Request interceptor: the x-amz-access-token header of an outgoing call made
\* through this.client (0: header not set).
AttachNever(creds) == 0
AttachToken(creds) ==
    IF creds # NoCredentials /\ creds.accessToken # 0 THEN creds.accessToken ELSE 0

\* Response interceptor, error branch: the condition for refresh-and-replay.
ShouldRetryAny401(status, retry) == status = 401
ShouldRetry(status, retry) == status = 401 /\ ~retry

\* Response interceptor, error branch: the rejection handed to the caller when
\* the request is not refreshed and replayed.
RejectWithFirst(r, n, st) == ErrorOf(r, 1, st)
RejectWith(r, n, st) == ErrorOf(r, n, st)

\* Response interceptor, success branch: (response) => response.
InterceptResponseDropped(r, n) == NoResp
InterceptResponse(r, n) == Body(r, n)

\* refreshAccessToken: the guard before the network call.
HasRefreshTokenAlways(creds) == TRUE
HasRefreshToken(creds) == creds # NoCredentials /\ creds.refreshToken # ""

\* refreshAccessToken: the credential set after a successful refresh response.
StoreAndDropRefreshToken(creds, token, t) ==
    IF creds # NoCredentials
    THEN [creds EXCEPT !.accessToken = token, !.refreshToken = "",
                       !.accessTokenExpiry = t + ExpiresIn * 1000]
    ELSE creds
StoreNothing(creds, token, t) == creds
StoreToken(creds, token, t) ==
    IF creds # NoCredentials
    THEN [creds EXCEPT !.accessToken = token,
                       !.accessTokenExpiry = t + ExpiresIn * 1000]
    ELSE creds

\* setCredentials(credentials)
SetCredentials(c) ==
    /\ credentials' = c
    /\ UNCHANGED <<lastRequestTime, req, now, tokensIssued, lastCall>>
    /\ UNCHANGED outsideApi

\* A remote-call method of the service: this.client.get/post/put(...).  The
\* request interceptor runs, then the call goes out.  Call ids are handed
\* out in order.
CallMethod(r, m) ==
    /\ req[r].pc = "idle"
    /\ \A q \in Reqs : q < r => req[q].pc # "idle"
    /\ req' = [req EXCEPT ![r] = [@ EXCEPT !.pc = "sent", !.method = m,
                                           !.header = AttachToken(credentials),
                                           !.sends = 1, !.started = now]]
    /\ lastCall' = [purpose |-> "method", via |-> "client",
                    header |-> AttachToken(credentials), held |-> credentials]
    /\ UNCHANGED <<credentials, lastRequestTime, now, tokensIssued>>
    /\ UNCHANGED outsideApi

\* downloadReportDocument(url): axios.get(url), not this.client.
DownloadReportDocument(r) ==
    /\ req[r].pc = "idle"
    /\ \A q \in Reqs : q < r => req[q].pc # "idle"
    /\ req' = [req EXCEPT ![r] = [@ EXCEPT !.pc = "sent",
                                           !.method = "downloadReportDocument",
                                           !.header = 0,
                                           !.sends = 1, !.started = now]]
    /\ lastCall' = [purpose |-> "download", via |-> "axios",
                    header |-> 0, held |-> credentials]
    /\ UNCHANGED <<credentials, lastRequestTime, now, tokensIssued>>
    /\ UNCHANGED outsideApi

\* The answer to a send arrives.  For a call made through this.client the
\* response interceptor runs: on a first 401 it marks the request, calls
\* refreshAccessToken (which throws at once without a refresh token, and
\* otherwise posts to the refresh endpoint with plain axios).
Respond(r, st) ==
    /\ req[r].pc = "sent"
    /\ LET q == [req[r] EXCEPT !.statuses = Append(@, st)]
           n == req[r].sends
       IN IF st = 200
          THEN /\ req' = [req EXCEPT ![r] = [q EXCEPT !.pc = "done",
                              !.outcome = IF q.method \in ClientMethods
                                          THEN InterceptResponse(r, n)
                                          ELSE Body(r, n)]]
               /\ UNCHANGED lastCall
          ELSE IF q.method \in ClientMethods /\ ShouldRetry(st, q.retry)
          THEN IF HasRefreshToken(credentials)
               THEN /\ req' = [req EXCEPT ![r] = [q EXCEPT !.pc = "refreshing",
                                   !.retry = TRUE,
                                   !.refreshes = @ + 1,
                                   !.refreshCalls = @ + 1,
                                   !.rtSent = credentials.refreshToken]]
                    /\ lastCall' = [purpose |-> "refresh", via |-> "axios",
                                    header |-> 0, held |-> credentials]
               ELSE /\ req' = [req EXCEPT ![r] = [q EXCEPT !.pc = "done",
                                   !.retry = TRUE,
                                   !.refreshes = @ + 1,
                                   !.outcome = NoRefreshTokenError]]
                    /\ UNCHANGED lastCall
          ELSE /\ req' = [req EXCEPT ![r] = [q EXCEPT !.pc = "done",
                              !.outcome = IF q.method \in ClientMethods
                                          THEN RejectWith(r, n, st)
                                          ELSE ErrorOf(r, n, st)]]
               /\ UNCHANGED lastCall
    /\ UNCHANGED <<credentials, lastRequestTime, now, tokensIssued>>
    /\ UNCHANGED outsideApi

\* The refresh endpoint answers.  On success the token and expiry are stored
\* in whatever this.credentials is now, and the original request is replayed
\* through this.client (the request interceptor runs again); on failure the
\* refresh error is rethrown to the caller.
RefreshRespond(r, ok) ==
    /\ req[r].pc = "refreshing"
    /\ IF ok
       THEN LET token == FirstIssuedToken + tokensIssued
                stored == StoreToken(credentials, token, now)
            IN /\ credentials' = stored
               /\ tokensIssued' = tokensIssued + 1
               /\ req' = [req EXCEPT ![r] = [@ EXCEPT !.pc = "sent",
                              !.header = AttachToken(stored),
                              !.sends = @ + 1]]
               /\ lastCall' = [purpose |-> "method", via |-> "client",
                               header |-> AttachToken(stored), held |-> stored]
       ELSE /\ req' = [req EXCEPT ![r] = [@ EXCEPT !.pc = "done",
                              !.outcome = RefreshError(r)]]
            /\ UNCHANGED <<credentials, tokensIssued, lastCall>>
    /\ UNCHANGED <<lastRequestTime, now>>
    /\ UNCHANGED outsideApi

\* Time passes.
Tick ==
    /\ now + TickMs <= StartTime + MaxTicks * TickMs
    /\ now' = now + TickMs
    /\ UNCHANGED <<credentials, lastRequestTime, req, tokensIssued, lastCall>>
    /\ UNCHANGED outsideApi

(***************************************************************************)
(* enforceRateLimit, the rate limiting helper.  No method of the service   *)
(* calls it; RateLimitSpec invokes it directly.                            *)
(***************************************************************************)
Callers == {1, 2, 3}

IdleCaller == [pc |-> "idle", seen |-> 0, wakeAt |-> 0, returned |-> 0]

\* this.rateLimitDelay - timeSinceLastRequest, the delay handed to setTimeout
\* (0: no wait).
WaitFor(t, last) ==
    IF t - last < rateLimitDelay THEN rateLimitDelay - (t - last) ELSE 0

\* enforceRateLimit() up to its first suspension: it reads the clock and
\* lastRequestTime, and either suspends in setTimeout or, with nothing to
\* wait for, sets lastRequestTime and returns.
EnforceRateLimit(c) ==
    /\ limiter[c].pc = "idle"
    /\ \A d \in Callers : d < c => limiter[d].pc # "idle"
    /\ LET wait == WaitFor(now, lastRequestTime)
       IN IF wait > 0
          THEN /\ limiter' = [limiter EXCEPT ![c] =
                      [pc |-> "waiting", seen |-> lastRequestTime,
                       wakeAt |-> now + wait, returned |-> 0]]
               /\ UNCHANGED lastRequestTime
          ELSE /\ limiter' = [limiter EXCEPT ![c] =
                      [pc |-> "done", seen |-> lastRequestTime,
                       wakeAt |-> now, returned |-> now]]
               /\ lastRequestTime' = now
    /\ UNCHANGED now
    /\ UNCHANGED outsideLimiter

\* The timer of a suspended invocation fires, at its time or later: the
\* invocation sets lastRequestTime to the current time and returns.
TimerFires(c) ==
    /\ limiter[c].pc = "waiting"
    /\ now >= limiter[c].wakeAt
    /\ limiter' = [limiter EXCEPT ![c] = [@ EXCEPT !.pc = "done", !.returned = now]]
    /\ lastRequestTime' = now
    /\ UNCHANGED now
    /\ UNCHANGED outsideLimiter

\* Time passes while invocations of enforceRateLimit are suspended.
Elapse ==
    /\ now + TickMs <= StartTime + MaxSleepTicks * TickMs
    /\ now' = now + TickMs
    /\ UNCHANGED <<lastRequestTime, limiter>>
    /\ UNCHANGED outsideLimiter

(***************************************************************************)
(* validateShipmentPlan                                                    *)
(***************************************************************************)
\* What a getPrepInstructions call gives for one item: a body without an
\* errors field, one with an empty error list, one with a non-empty error
\* list, or a rejection.
PrepAnswers == {"no_errors_field", "empty_errors", "errors", "rejects"}

Skus == {"skuA", "skuB"}

\* The plans handed to validateShipmentPlan, as the sellerSku of each item.
RECURSIVE SeqsUpTo(_, _)
SeqsUpTo(S, n) ==
    IF n = 0 THEN {<<>>}
    ELSE LET shorter == SeqsUpTo(S, n - 1)
         IN shorter \cup {Append(q, x) : q \in {t \in shorter : Len(t) = n - 1}, x \in S}

Plans == SeqsUpTo(Skus, MaxItems)

\* lookups: the sellerSKUList of each getPrepInstructions call made so far;
\* answers: what each settled call gave.
NoValidation == [pc |-> "idle", items |-> <<>>, lookups |-> <<>>,
                 answers |-> <<>>, result |-> Null]

\* prepInstructions.errors && prepInstructions.errors.length > 0
AnyErrorsField(answer) == answer \in {"empty_errors", "errors"}
HasErrors(answer) == answer = "errors"

\* validateShipmentPlan(plan) up to its first suspension: with no item the
\* loop body never runs and it returns true; otherwise the lookup for the
\* first item goes out.
ValidateShipmentPlan(plan) ==
    /\ validation.pc = "idle"
    /\ validation' =
           IF plan = <<>>
           THEN [NoValidation EXCEPT !.pc = "returned", !.result = "true"]
           ELSE [NoValidation EXCEPT !.pc = "looking", !.items = plan,
                                     !.lookups = <<plan[1]>>]
    /\ UNCHANGED outsideValidation

\* The pending getPrepInstructions call settles.  A rejection rejects the
\* validation; a non-empty error list returns false at once; otherwise the
\* loop goes on to the next item, or returns true after the last.
PrepInstructions(answer) ==
    /\ validation.pc = "looking"
    /\ LET v == [validation EXCEPT !.answers = Append(@, answer)]
           k == Len(v.answers)
       IN validation' =
              IF answer = "rejects"
              THEN [v EXCEPT !.pc = "rejected"]
              ELSE IF HasErrors(answer)
              THEN [v EXCEPT !.pc = "returned", !.result = "false"]
              ELSE IF k < Len(v.items)
              THEN [v EXCEPT !.lookups = Append(@, v.items[k + 1])]
              ELSE [v EXCEPT !.pc = "returned", !.result = "true"]
    /\ UNCHANGED outsideValidation

(***************************************************************************)
(* The settings slice and the backend tables its thunks use.               *)
(***************************************************************************)
Users == {"u1", "u2"}
TableNames == {"global_settings", "amazon_credentials"}

FetchThunks == {"fetchGlobalSettings", "fetchAmazonCredentials"}
UpsertThunks == {"updateGlobalSettings", "saveAmazonCredentials"}
Thunks == FetchThunks \cup UpsertThunks

\* The table a thunk queries: supabase.from(...).
TableOf(thunk) ==
    IF thunk \in {"fetchGlobalSettings", "updateGlobalSettings"}
    THEN "global_settings"
    ELSE "amazon_credentials"

\* data: null of a query result.
NoRow == [id |-> 0, userId |-> Null, val |-> 0]

\* error: null of a query result, the backend's "no rows" error of .single(),
\* and the genuine failures (one of them with an empty message).
NoError == [code |-> "", message |-> ""]
NoRowsError == [code |-> "PGRST116", message |-> "no rows"]
Failures == { [code |-> "500", message |-> "backend failure"],
              [code |-> "network", message |-> ""] }

\* The failures that can make a difference to operation o's query: only a
\* fetch thunk's rejected action, which has a reducer case, reads the message.
FailuresFor(o) ==
    IF o.thunk \in FetchThunks THEN Failures
    ELSE {[code |-> "500", message |-> "backend failure"]}

RowsOf(t, u) == {row \in tables[t] : row.userId = u}

\* .eq('userId', userId).single(): the single matching row, or the "no rows"
\* error when there is not exactly one.
Single(rows) ==
    IF Cardinality(rows) = 1
    THEN [data |-> CHOOSE row \in rows : TRUE, error |-> NoError]
    ELSE [data |-> NoRow, error |-> NoRowsError]

\* fetchGlobalSettings / fetchAmazonCredentials:
\*   if (error && error.code !== 'PGRST116') throw error;
ThrowsOnAnyError(error) == error # NoError
FetchThrows(error) == error # NoError /\ error.code # "PGRST116"

\* updateGlobalSettings / saveAmazonCredentials: const { data: existing } = ...
\* Only data is read; the lookup's error is not.
Existing(result) == result.data # NoRow

\* action.error.message || '<default>'
DefaultMessage(thunk) ==
    IF thunk = "fetchGlobalSettings"
    THEN "Failed to fetch settings"
    ELSE "Failed to fetch Amazon credentials"

MessageOf(error, thunk) ==
    IF error.message # "" THEN error.message ELSE DefaultMessage(thunk)

initialState ==
    [globalSettings |-> NoRow, amazonCredentials |-> NoRow,
     isLoading |-> FALSE, error |-> Null]

\* settingsSlice: reducers and extraReducers.  A thunk phase with no case
\* leaves the state as it is.
settingsReducer(state, type, phase, payload, error) ==
    CASE type \in FetchThunks /\ phase = "pending" ->
             [state EXCEPT !.isLoading = TRUE, !.error = Null]
      [] type = "fetchGlobalSettings" /\ phase = "fulfilled" ->
             [state EXCEPT !.isLoading = FALSE, !.globalSettings = payload]
      [] type = "fetchAmazonCredentials" /\ phase = "fulfilled" ->
             [state EXCEPT !.isLoading = FALSE, !.amazonCredentials = payload]
      [] type \in FetchThunks /\ phase = "rejected" ->
             [state EXCEPT !.isLoading = FALSE, !.error = MessageOf(error, type)]
      [] type = "updateGlobalSettings" /\ phase = "fulfilled" ->
             [state EXCEPT !.globalSettings = payload]
      [] type = "saveAmazonCredentials" /\ phase = "fulfilled" ->
             [state EXCEPT !.amazonCredentials = payload]
      [] type = "clearError" ->
             [state EXCEPT !.error = Null]
      [] type = "updateLocalSettings" /\ state.globalSettings # NoRow ->
             [state EXCEPT !.globalSettings = [@ EXCEPT !.val = payload.val]]
      [] OTHER -> state

NoEvent == [type |-> Null, phase |-> Null, op |-> 0]

\* store.dispatch(action): the reducer runs, and the action is remembered.
Dispatched(type, phase, payload, error, i) ==
    /\ settings' = settingsReducer(settings, type, phase, payload, error)
    /\ lastEvent' = [type |-> type, phase |-> phase, op |-> i]

\* dispatch(thunk(arg)): the pending action is dispatched and the thunk's first
\* query, the single-row lookup by userId, goes out.  The settings an upsert
\* writes are identified by the operation.  The users are interchangeable, so
\* the first operation is taken to be u1's.
Dispatch(thunk, u) ==
    /\ Len(ops) < MaxOps
    /\ ops = <<>> => u = "u1"
    /\ ops' = Append(ops, [thunk |-> thunk, userId |-> u, pc |-> "lookup",
                           lookup |-> [data |-> NoRow, error |-> NoError],
                           matched |-> 0, wrote |-> "no",
                           result |-> [data |-> NoRow, error |-> NoError],
                           outcome |-> "pending"])
    /\ Dispatched(thunk, "pending", NoRow, NoError, Len(ops) + 1)
    /\ UNCHANGED <<tables, nextId>>
    /\ UNCHANGED outsideSettings

\* The backend answers operation i's lookup: with the single row or "no rows",
\* or (failure # NoError) with a genuine failure.  A fetch thunk is then ready
\* to settle; an upsert thunk goes on to its write.
Lookup(i, failure) ==
    /\ i \in DOMAIN ops
    /\ ops[i].pc = "lookup"
    /\ failure \in FailuresFor(ops[i]) \cup {NoError}
    /\ LET rows == RowsOf(TableOf(ops[i].thunk), ops[i].userId)
           answer == IF failure = NoError THEN Single(rows)
                     ELSE [data |-> NoRow, error |-> failure]
       IN ops' = [ops EXCEPT ![i] = [@ EXCEPT
                      !.lookup = answer,
                      !.matched = Cardinality(rows),
                      !.result = IF ops[i].thunk \in FetchThunks THEN answer ELSE @,
                      !.pc = IF ops[i].thunk \in FetchThunks THEN "settle" ELSE "write"]]
    /\ UNCHANGED <<tables, nextId, settings, lastEvent>>
    /\ UNCHANGED outsideSettings

\* The backend executes operation i's write: an update of the user's rows when
\* the lookup returned a row, an insert otherwise; each followed by
\* .select().single().  A failed write changes nothing.
Write(i, failure) ==
    /\ i \in DOMAIN ops
    /\ ops[i].pc = "write"
    /\ failure \in FailuresFor(ops[i]) \cup {NoError}
    /\ LET t == TableOf(ops[i].thunk)
           u == ops[i].userId
           updated == {[row EXCEPT !.val = i] : row \in RowsOf(t, u)}
           inserted == [id |-> nextId, userId |-> u, val |-> i]
       IN IF failure # NoError
          THEN /\ ops' = [ops EXCEPT ![i] = [@ EXCEPT !.pc = "settle",
                              !.result = [data |-> NoRow, error |-> failure]]]
               /\ UNCHANGED <<tables, nextId>>
          ELSE IF Existing(ops[i].lookup)
          THEN /\ tables' = [tables EXCEPT ![t] = (@ \ RowsOf(t, u)) \cup updated]
               /\ ops' = [ops EXCEPT ![i] = [@ EXCEPT !.pc = "settle",
                              !.wrote = "update",
                              !.result = Single(updated)]]
               /\ UNCHANGED nextId
          ELSE /\ tables' = [tables EXCEPT ![t] = @ \cup {inserted}]
               /\ nextId' = nextId + 1
               /\ ops' = [ops EXCEPT ![i] = [@ EXCEPT !.pc = "settle",
                              !.wrote = "insert",
                              !.result = [data |-> inserted, error |-> NoError]]]
    /\ UNCHANGED <<settings, lastEvent>>
    /\ UNCHANGED outsideSettings

\* The thunk's payload creator returns or throws, and fulfilled or rejected is
\* dispatched.
Settle(i) ==
    /\ i \in DOMAIN ops
    /\ ops[i].pc = "settle"
    /\ LET o == ops[i]
           throws == IF o.thunk \in FetchThunks
                     THEN FetchThrows(o.result.error)
                     ELSE o.result.error # NoError
           phase == IF throws THEN "rejected" ELSE "fulfilled"
       IN /\ ops' = [ops EXCEPT ![i] = [@ EXCEPT !.pc = "done", !.outcome = phase]]
          /\ Dispatched(o.thunk, phase, o.result.data, o.result.error, i)
    /\ UNCHANGED <<tables, nextId>>
    /\ UNCHANGED outsideSettings

\* dispatch(clearError())
ClearError ==
    /\ settings.error # Null
    /\ Dispatched("clearError", "sync", NoRow, NoError, 0)
    /\ UNCHANGED <<tables, nextId, ops>>
    /\ UNCHANGED outsideSettings

\* dispatch(updateLocalSettings(partial)): a local edit of the settings.
LocalEdit == [id |-> 0, userId |-> Null, val |-> -1]

UpdateLocalSettings ==
    /\ settings.globalSettings.val # LocalEdit.val
    /\ Dispatched("updateLocalSettings", "sync", LocalEdit, NoError, 0)
    /\ UNCHANGED <<tables, nextId, ops>>
    /\ UNCHANGED outsideSettings

(***************************************************************************)
(* The products and shipments slices and the backend tables their thunks   *)
(* use.  A row is its id and its content: "v1" as inserted, "v2" once      *)
(* updated.  A thunk's query is served by the backend in one step and its  *)
(* fulfilled or rejected action is dispatched in a later one, so answers   *)
(* reach the store in any order.                                           *)
(***************************************************************************)
CrudTables == {"products", "bundles", "shipments", "shipment_plans"}

\* The ids a table assigns, in this order.
RowIds == {1, 2, 3}

ProductThunks == {"fetchProducts", "fetchProductByAsin", "createProduct",
                  "updateProduct", "deleteProduct", "fetchBundles", "createBundle"}

\* The table a thunk queries and the kind of its query.
TableOfThunk(thunk) ==
    CASE thunk \in {"fetchProducts", "fetchProductByAsin", "createProduct",
                    "updateProduct", "deleteProduct"} -> "products"
      [] thunk \in {"fetchBundles", "createBundle"} -> "bundles"
      [] thunk \in {"fetchShipments", "fetchShipmentById", "createShipment",
                    "updateShipmentStatus"} -> "shipments"
      [] OTHER -> "shipment_plans"

QueryOf(thunk) ==
    CASE thunk \in {"fetchProducts", "fetchBundles", "fetchShipments",
                    "fetchShipmentPlans"} -> "select"
      [] thunk \in {"fetchProductByAsin", "fetchShipmentById"} -> "select_single"
      [] thunk \in {"createProduct", "createBundle", "createShipment",
                    "createShipmentPlan"} -> "insert"
      [] thunk \in {"updateProduct", "updateShipmentStatus"} -> "update"
      [] OTHER -> "delete"

\* The rows the user looks up, updates and deletes.
Targets == {1, 2}

\* The argument of a thunk that names a row (0: the thunk names none).
ArgsOf(thunk) ==
    IF QueryOf(thunk) \in {"select_single", "update", "delete"}
    THEN Targets ELSE {0}

NoItem == [id |-> 0, data |-> Null]
Row(id, data) == [id |-> id, data |-> data]

\* What a fulfilled action carries: a list of rows, one row, or an id.
NoPayload == [rows |-> <<>>, row |-> NoItem, id |-> 0]

\* The rows of a table by ascending id, the order they were inserted in.
RECURSIVE Ascending(_)
Ascending(rows) ==
    IF rows = {} THEN <<>>
    ELSE LET first == CHOOSE r \in rows : \A q \in rows : r.id <= q.id
         IN <<first>> \o Ascending(rows \ {first})

\* .order('createdAt', { ascending: false })
Reverse(list) == [k \in 1..Len(list) |-> list[Len(list) + 1 - k]]

SelectRows(thunk, rows) ==
    IF TableOfThunk(thunk) \in {"shipments", "shipment_plans"}
    THEN Reverse(Ascending(rows))
    ELSE Ascending(rows)

\* error.message of a failed query, and of .single() without a row.
QueryFailed == "query failed"
NoRowsFound == "no rows"

\* A dispatched thunk: pending until the backend has served its query,
\* answered until its fulfilled or rejected action is dispatched.
CompletedCall == [thunk |-> Null, arg |-> 0, pc |-> "completed",
                  payload |-> NoPayload, error |-> Null]

\* state.products.findIndex(p => p.id === r.id), replacing at that index.
ReplaceOrAdd(list, r) ==
    IF \E k \in 1..Len(list) : list[k].id = r.id
    THEN [k \in 1..Len(list) |-> IF list[k].id = r.id THEN r ELSE list[k]]
    ELSE Append(list, r)
ReplaceFirst(list, r) ==
    LET found == {k \in 1..Len(list) : list[k].id = r.id}
    IN IF found = {} THEN list
       ELSE LET index == CHOOSE k \in found : \A j \in found : k <= j
            IN [list EXCEPT ![index] = r]

\* state.products.filter(p => p.id !== id)
KeepOnly(list, id) == SelectSeq(list, LAMBDA p : p.id = id)
FilterOut(list, id) == SelectSeq(list, LAMBDA p : p.id # id)

\* list.push(r) and list.unshift(r)
AtHead(list, r) == <<r>> \o list
AtEnd(list, r) == Append(list, r)
Push(list, r) == Append(list, r)
Unshift(list, r) == <<r>> \o list

productsInitialState ==
    [products |-> <<>>, bundles |-> <<>>, selectedProduct |-> NoItem,
     isLoading |-> FALSE, error |-> Null, searchQuery |-> "", filters |-> <<>>]

\* The reducers of the products slice, extraReducers included.
productsReducer(state, type, phase, payload, error) ==
    CASE type = "selectProduct" ->
             [state EXCEPT !.selectedProduct = payload.row]
      [] type = "fetchProducts" /\ phase = "pending" ->
             [state EXCEPT !.isLoading = TRUE, !.error = Null]
      [] type = "fetchProducts" /\ phase = "fulfilled" ->
             [state EXCEPT !.isLoading = FALSE, !.products = payload.rows]
      [] type = "fetchProducts" /\ phase = "rejected" ->
             [state EXCEPT !.isLoading = FALSE, !.error = error]
      [] type = "fetchProductByAsin" /\ phase = "fulfilled" ->
             [state EXCEPT !.selectedProduct = payload.row,
                           !.products = ReplaceFirst(@, payload.row)]
      [] type = "createProduct" /\ phase = "fulfilled" ->
             [state EXCEPT !.products = Push(@, payload.row)]
      [] type = "updateProduct" /\ phase = "fulfilled" ->
             [state EXCEPT !.products = ReplaceFirst(@, payload.row),
                           !.selectedProduct =
                               IF @ # NoItem /\ @.id = payload.row.id
                               THEN payload.row ELSE @]
      [] type = "deleteProduct" /\ phase = "fulfilled" ->
             [state EXCEPT !.products = FilterOut(@, payload.id),
                           !.selectedProduct =
                               IF @ # NoItem /\ @.id = payload.id
                               THEN NoItem ELSE @]
      [] type = "fetchBundles" /\ phase = "fulfilled" ->
             [state EXCEPT !.bundles = payload.rows]
      [] type = "createBundle" /\ phase = "fulfilled" ->
             [state EXCEPT !.bundles = Push(@, payload.row)]
      [] OTHER -> state

ShipmentThunks == {"fetchShipments", "fetchShipmentById", "createShipment",
                   "updateShipmentStatus", "createShipmentPlan", "fetchShipmentPlans"}

shipmentsInitialState ==
    [shipments |-> <<>>, shipmentPlans |-> <<>>, selectedShipment |-> NoItem,
     currentPlan |-> NoItem, isLoading |-> FALSE, error |-> Null, filters |-> <<>>]

\* The reducers of the shipments slice, extraReducers included.
shipmentsReducer(state, type, phase, payload, error) ==
    CASE type = "selectShipment" ->
             [state EXCEPT !.selectedShipment = payload.row]
      [] type = "fetchShipments" /\ phase = "pending" ->
             [state EXCEPT !.isLoading = TRUE, !.error = Null]
      [] type = "fetchShipments" /\ phase = "fulfilled" ->
             [state EXCEPT !.isLoading = FALSE, !.shipments = payload.rows]
      [] type = "fetchShipments" /\ phase = "rejected" ->
             [state EXCEPT !.isLoading = FALSE, !.error = error]
      [] type = "fetchShipmentById" /\ phase = "fulfilled" ->
             [state EXCEPT !.selectedShipment = payload.row,
                           !.shipments = ReplaceFirst(@, payload.row)]
      [] type = "createShipment" /\ phase = "fulfilled" ->
             [state EXCEPT !.shipments = Unshift(@, payload.row)]
      [] type = "updateShipmentStatus" /\ phase = "fulfilled" ->
             [state EXCEPT !.shipments = ReplaceFirst(@, payload.row),
                           !.selectedShipment =
                               IF @ # NoItem /\ @.id = payload.row.id
                               THEN payload.row ELSE @]
      [] type = "createShipmentPlan" /\ phase = "fulfilled" ->
             [state EXCEPT !.shipmentPlans = Unshift(@, payload.row),
                           !.currentPlan = payload.row]
      [] type = "fetchShipmentPlans" /\ phase = "fulfilled" ->
             [state EXCEPT !.shipmentPlans = payload.rows]
      [] OTHER -> state

NoAction == [type |-> Null, phase |-> Null]

\* store.dispatch(action): the action reaches the reducer of its slice.
Reduce(type, phase, payload, error) ==
    /\ IF type \in ProductThunks \cup {"selectProduct"}
       THEN /\ productsState' = productsReducer(productsState, type, phase, payload, error)
            /\ UNCHANGED shipmentsState
       ELSE /\ shipmentsState' = shipmentsReducer(shipmentsState, type, phase, payload, error)
            /\ UNCHANGED productsState
    /\ lastAction' = [type |-> type, phase |-> phase]

\* dispatch(thunk(arg)): the pending action is dispatched and the query goes
\* out.
DispatchThunk(thunk, arg) ==
    /\ Len(calls) < MaxCalls
    /\ arg \in ArgsOf(thunk)
    /\ calls' = Append(calls, [thunk |-> thunk, arg |-> arg, pc |-> "pending",
                               payload |-> NoPayload, error |-> Null])
    /\ Reduce(thunk, "pending", NoPayload, Null)
    /\ UNCHANGED <<backend, lastId>>
    /\ UNCHANGED outsideCrud

\* The backend serves the query of a pending thunk: it fails, or reads or
\* writes the table.  An insert gets the table's next id; select_single and
\* update ... .single() fail unless a row has the id; a delete succeeds
\* whether or not a row has it.
Serve(i, fails) ==
    /\ i \in DOMAIN calls
    /\ calls[i].pc = "pending"
    /\ LET c == calls[i]
           t == TableOfThunk(c.thunk)
           q == QueryOf(c.thunk)
           hit == {r \in backend[t] : r.id = c.arg}
           answer(payload, error) ==
               calls' = [calls EXCEPT ![i] =
                            [c EXCEPT !.pc = "answered", !.payload = payload,
                                      !.error = error]]
       IN IF fails
          THEN /\ answer(NoPayload, QueryFailed)
               /\ UNCHANGED <<backend, lastId>>
          ELSE CASE q = "select" ->
                        /\ answer([NoPayload EXCEPT !.rows = SelectRows(c.thunk, backend[t])], Null)
                        /\ UNCHANGED <<backend, lastId>>
                 [] q = "select_single" ->
                        /\ IF hit = {}
                           THEN answer(NoPayload, NoRowsFound)
                           ELSE answer([NoPayload EXCEPT !.row = CHOOSE r \in hit : TRUE], Null)
                        /\ UNCHANGED <<backend, lastId>>
                 [] q = "insert" ->
                        /\ lastId[t] + 1 \in RowIds
                        /\ LET row == Row(lastId[t] + 1, "v1")
                           IN /\ backend' = [backend EXCEPT ![t] = @ \cup {row}]
                              /\ answer([NoPayload EXCEPT !.row = row], Null)
                        /\ lastId' = [lastId EXCEPT ![t] = @ + 1]
                 [] q = "update" ->
                        /\ IF hit = {}
                           THEN /\ answer(NoPayload, NoRowsFound)
                                /\ UNCHANGED backend
                           ELSE LET row == Row(c.arg, "v2")
                                IN /\ backend' = [backend EXCEPT ![t] = (@ \ hit) \cup {row}]
                                   /\ answer([NoPayload EXCEPT !.row = row], Null)
                        /\ UNCHANGED lastId
                 [] OTHER ->
                        /\ backend' = [backend EXCEPT ![t] = @ \ hit]
                        /\ answer([NoPayload EXCEPT !.id = c.arg], Null)
                        /\ UNCHANGED lastId
    /\ UNCHANGED <<productsState, shipmentsState, lastAction>>
    /\ UNCHANGED outsideCrud

\* The answer reaches the thunk: it dispatches fulfilled with what the query
\* returned, or rejected with the error's message.
Complete(i) ==
    /\ i \in DOMAIN calls
    /\ calls[i].pc = "answered"
    /\ LET c == calls[i]
       IN Reduce(c.thunk, IF c.error = Null THEN "fulfilled" ELSE "rejected",
                 c.payload, c.error)
    /\ calls' = [calls EXCEPT ![i] = CompletedCall]
    /\ UNCHANGED <<backend, lastId>>
    /\ UNCHANGED outsideCrud

\* dispatch(selectProduct(p)), p an entry of the list or null (id 0).
SelectProduct(id) ==
    /\ id # productsState.selectedProduct.id
    /\ \/ id = 0 /\ Reduce("selectProduct", "sync", NoPayload, Null)
       \/ \E k \in 1..Len(productsState.products) :
              /\ productsState.products[k].id = id
              /\ Reduce("selectProduct", "sync",
                        [NoPayload EXCEPT !.row = productsState.products[k]], Null)
    /\ UNCHANGED <<backend, lastId, calls>>
    /\ UNCHANGED outsideCrud

\* dispatch(selectShipment(s)), s an entry of the list or null (id 0).
SelectShipment(id) ==
    /\ id # shipmentsState.selectedShipment.id
    /\ \/ id = 0 /\ Reduce("selectShipment", "sync", NoPayload, Null)
       \/ \E k \in 1..Len(shipmentsState.shipments) :
              /\ shipmentsState.shipments[k].id = id
              /\ Reduce("selectShipment", "sync",
                        [NoPayload EXCEPT !.row = shipmentsState.shipments[k]], Null)
    /\ UNCHANGED <<backend, lastId, calls>>
    /\ UNCHANGED outsideCrud

(***************************************************************************)
(* The auth slice.  signIn, signUp, signOut and getCurrentUser answer with *)
(* a user, with no user (null), or with an error.                          *)
(***************************************************************************)
AuthThunks == {"loginUser", "registerUser", "logoutUser", "fetchCurrentUser"}

authInitialState ==
    [user |-> Null, isLoading |-> FALSE, error |-> Null, isAuthenticated |-> FALSE]

\* action.error.message || '...': the message of a rejected thunk.
AuthFailed == "auth failed"

\* The reducers of the auth slice, extraReducers included.
authReducer(state, type, phase, payload, error) ==
    CASE type = "setUser" ->
             [state EXCEPT !.user = payload, !.isAuthenticated = payload # Null]
      [] type = "clearError" ->
             [state EXCEPT !.error = Null]
      [] type \in {"loginUser", "registerUser"} /\ phase = "pending" ->
             [state EXCEPT !.isLoading = TRUE, !.error = Null]
      [] type \in {"loginUser", "registerUser"} /\ phase = "fulfilled" ->
             [state EXCEPT !.isLoading = FALSE, !.user = payload,
                           !.isAuthenticated = TRUE]
      [] type \in {"loginUser", "registerUser"} /\ phase = "rejected" ->
             [state EXCEPT !.isLoading = FALSE, !.error = error]
      [] type = "logoutUser" /\ phase = "fulfilled" ->
             [state EXCEPT !.user = Null, !.isAuthenticated = FALSE]
      [] type = "fetchCurrentUser" /\ phase = "fulfilled" ->
             [state EXCEPT !.user = payload, !.isAuthenticated = payload # Null]
      [] OTHER -> state

\* dispatch(thunk(...)) for a thunk of the auth slice: the pending action.
DispatchAuth(thunk) ==
    /\ Len(authCalls) < MaxCalls
    /\ authCalls' = Append(authCalls, [thunk |-> thunk, pc |-> "pending"])
    /\ auth' = authReducer(auth, thunk, "pending", Null, Null)
    /\ UNCHANGED outsideAuth

\* The auth service answers a pending thunk: with an error the thunk is
\* rejected; otherwise it is fulfilled, with data.user (loginUser,
\* registerUser), the current user (fetchCurrentUser) or nothing (logoutUser).
SettleAuth(i, user, fails) ==
    /\ i \in DOMAIN authCalls
    /\ authCalls[i].pc = "pending"
    /\ authCalls[i].thunk = "logoutUser" => user = Null
    /\ fails => user = Null
    /\ authCalls' = [authCalls EXCEPT ![i] = [@ EXCEPT !.pc = "completed"]]
    /\ auth' = IF fails
               THEN authReducer(auth, authCalls[i].thunk, "rejected", Null, AuthFailed)
               ELSE authReducer(auth, authCalls[i].thunk, "fulfilled", user, Null)
    /\ UNCHANGED outsideAuth

\* dispatch(setUser(user)), user possibly null.
SetUser(user) ==
    /\ auth' = authReducer(auth, "setUser", "sync", user, Null)
    /\ UNCHANGED authCalls
    /\ UNCHANGED outsideAuth

\* dispatch(clearError()) on the auth slice.
ClearAuthError ==
    /\ auth.error # Null
    /\ auth' = authReducer(auth, "clearError", "sync", Null, Null)
    /\ UNCHANGED authCalls
    /\ UNCHANGED outsideAuth

ApiInit ==
    /\ credentials = NoCredentials
    /\ lastRequestTime = 0
    /\ req = [r \in Reqs |-> IdleReq]
    /\ now = StartTime
    /\ tokensIssued = 0
    /\ lastCall = NoCall

SettingsInit ==
    /\ tables = [t \in TableNames |-> {}]
    /\ nextId = 1
    /\ ops = <<>>
    /\ settings = initialState
    /\ lastEvent = NoEvent

LimiterInit == limiter = [c \in Callers |-> IdleCaller]

ValidationInit == validation = NoValidation

\* Each of the products and shipments tables holds two rows; nothing has
\* been fetched yet.
CrudInit ==
    /\ backend = [t \in CrudTables |->
                     IF t \in {"products", "shipments"}
                     THEN {Row(1, "v1"), Row(2, "v1")} ELSE {}]
    /\ lastId = [t \in CrudTables |-> IF t \in {"products", "shipments"} THEN 2 ELSE 0]
    /\ calls = <<>>
    /\ productsState = productsInitialState
    /\ shipmentsState = shipmentsInitialState
    /\ lastAction = NoAction

AuthInit ==
    /\ auth = authInitialState
    /\ authCalls = <<>>

Init ==
    /\ ApiInit /\ SettingsInit /\ LimiterInit /\ ValidationInit /\ CrudInit
    /\ AuthInit

ApiNext ==
    \/ \E c \in CredentialSets : SetCredentials(c)
    \/ \E r \in Reqs, m \in ClientMethods : CallMethod(r, m)
    \/ \E r \in Reqs : DownloadReportDocument(r)
    \/ \E r \in Reqs, st \in Statuses : Respond(r, st)
    \/ \E r \in Reqs, ok \in BOOLEAN : RefreshRespond(r, ok)
    \/ Tick

ApiSpec == Init /\ [][ApiNext]_vars

SettingsNext ==
    \/ \E thunk \in Thunks, u \in Users : Dispatch(thunk, u)
    \/ \E i \in 1..MaxOps, failure \in Failures \cup {NoError} : Lookup(i, failure)
    \/ \E i \in 1..MaxOps, failure \in Failures \cup {NoError} : Write(i, failure)
    \/ \E i \in 1..MaxOps : Settle(i)
    \/ ClearError
    \/ UpdateLocalSettings

SettingsSpec == Init /\ [][SettingsNext]_vars

RateLimitNext ==
    \/ \E c \in Callers : EnforceRateLimit(c)
    \/ \E c \in Callers : TimerFires(c)
    \/ Elapse

RateLimitSpec == Init /\ [][RateLimitNext]_vars

ValidationNext ==
    \/ \E plan \in Plans : ValidateShipmentPlan(plan)
    \/ \E answer \in PrepAnswers : PrepInstructions(answer)

ValidationSpec == Init /\ [][ValidationNext]_vars

ProductsNext ==
    \/ \E thunk \in ProductThunks, arg \in Targets \cup {0} : DispatchThunk(thunk, arg)
    \/ \E i \in 1..MaxCalls, fails \in BOOLEAN : Serve(i, fails)
    \/ \E i \in 1..MaxCalls : Complete(i)
    \/ \E id \in RowIds \cup {0} : SelectProduct(id)

ProductsSpec == Init /\ [][ProductsNext]_vars

ShipmentsNext ==
    \/ \E thunk \in ShipmentThunks, arg \in Targets \cup {0} : DispatchThunk(thunk, arg)
    \/ \E i \in 1..MaxCalls, fails \in BOOLEAN : Serve(i, fails)
    \/ \E i \in 1..MaxCalls : Complete(i)
    \/ \E id \in RowIds \cup {0} : SelectShipment(id)

ShipmentsSpec == Init /\ [][ShipmentsNext]_vars

\* Either slice of the store at work.  The two slices share no state and no
\* table, so a run dispatches the thunks of one of them.
DispatchInSlice(thunk, arg) ==
    /\ \/ lastAction.type \in ProductThunks \cup {Null} /\ thunk \in ProductThunks
       \/ lastAction.type \in ShipmentThunks \cup {Null} /\ thunk \in ShipmentThunks
    /\ DispatchThunk(thunk, arg)

StoreNext ==
    \/ \E thunk \in ProductThunks \cup ShipmentThunks, arg \in Targets \cup {0} :
           DispatchInSlice(thunk, arg)
    \/ \E i \in 1..MaxCalls, fails \in BOOLEAN : Serve(i, fails)
    \/ \E i \in 1..MaxCalls : Complete(i)

StoreSpec == Init /\ [][StoreNext]_vars

AuthNext ==
    \/ \E thunk \in AuthThunks : DispatchAuth(thunk)
    \/ \E i \in 1..MaxCalls, user \in Users \cup {Null}, fails \in BOOLEAN :
           SettleAuth(i, user, fails)
    \/ \E user \in Users \cup {Null} : SetUser(user)
    \/ ClearAuthError

AuthSpec == Init /\ [][AuthNext]_vars

(***************************************************************************)
(* Claims about AmazonSpApiService, checked under ApiSpec.                 *)
(***************************************************************************)
Received(r, a, b) ==
    /\ req[r].method \in ClientMethods
    /\ Len(req[r].statuses) >= 2
    /\ req[r].statuses[1] = a
    /\ req[r].statuses[2] = b

\* C1: a request made through this.client is sent at most twice and triggers
\* at most one token refresh; when the original and the replay both receive
\* 401 the call is over, it has failed with the replay's 401, and there was
\* no third send and no second refresh.
C1_RetryAtMostOnce ==
    \A r \in Reqs :
        req[r].method \in ClientMethods =>
            /\ req[r].sends <= 2
            /\ req[r].refreshes <= 1
            /\ req[r].refreshCalls <= 1
            /\ Received(r, 401, 401) =>
                   /\ req[r].pc = "done"
                   /\ req[r].outcome = HttpError(r, 2, 401)
                   /\ req[r].sends = 2
                   /\ req[r].refreshes = 1

C1_Witness ==
    \E r \in Reqs : Received(r, 401, 401) /\ req[r].pc = "done"

\* C2: a request that receives 401 and then a 2xx on its replay succeeds: the
\* caller gets the body of the replay's response, and the request was sent
\* exactly twice.
C2_ReplaySucceeds ==
    \A r \in Reqs :
        Received(r, 401, 200) =>
            /\ req[r].pc = "done"
            /\ req[r].outcome = Body(r, 2)
            /\ req[r].sends = 2
            /\ Len(req[r].statuses) = 2

C2_Witness ==
    \E r \in Reqs : Received(r, 401, 200) /\ req[r].outcome.kind = "body"

\* C3: any two remote-call methods of the service start their outgoing HTTP
\* calls at least rateLimitDelay milliseconds apart.
C3_CallsSpacedByDelay ==
    \A r1, r2 \in Reqs :
        /\ r1 # r2
        /\ req[r1].method \in ClientMethods
        /\ req[r2].method \in ClientMethods
        => \/ req[r1].started - req[r2].started >= rateLimitDelay
           \/ req[r2].started - req[r1].started >= rateLimitDelay

\* C4: when a first 401 arrives while no refresh token is held (no credential
\* set, or one whose refresh token is missing), the refresh attempt fails with
\* its own error and makes no network call, the request is not replayed, and
\* the held credential set is unchanged.
NoRefreshTokenHeld ==
    credentials = NoCredentials \/ credentials.refreshToken = ""

C4_Step ==
    \A r \in Reqs :
        (req[r].refreshes = 0 /\ req'[r].refreshes = 1 /\ NoRefreshTokenHeld) =>
            /\ req'[r].pc = "done"
            /\ req'[r].outcome = NoRefreshTokenError
            /\ req'[r].refreshCalls = 0
            /\ req'[r].sends = 1
            /\ credentials' = credentials
            /\ lastCall' = lastCall
            /\ tokensIssued' = tokensIssued

C4_Failed ==
    \A r \in Reqs :
        req[r].outcome = NoRefreshTokenError =>
            /\ req[r].pc = "done"
            /\ req[r].sends = 1
            /\ req[r].refreshCalls = 0

\* C4: every step in which a first 401 meets a missing refresh token is as
\* C4_Step says, and every call that failed that way is as C4_Failed says.
C4_RefreshWithoutTokenFails == [][C4_Step]_vars /\ []C4_Failed

C4_Witness ==
    \E r \in Reqs :
        /\ req[r].outcome = NoRefreshTokenError
        /\ req[r].statuses = <<401>>
        /\ credentials # NoCredentials
        /\ credentials.refreshToken = ""

\* C5 (as amended): every outgoing call made through this.client carries the
\* held access token as its header when one is held and no header when none
\* is held; the two calls made with plain axios, downloadReportDocument and
\* the token refresh, never carry the header.
C5_TokenAttachedByClient ==
    /\ lastCall.via = "client" => lastCall.header = lastCall.held.accessToken
    /\ lastCall.via = "axios" => lastCall.header = 0

C5_Witness ==
    /\ lastCall.via = "client"
    /\ lastCall.held.accessToken # 0
    /\ lastCall.header = lastCall.held.accessToken
    /\ \E r \in Reqs : req[r].sends = 2 /\ req[r].pc = "sent"

\* C5 (original): every outgoing call of the service, downloadReportDocument
\* and the token refresh included, carries the held access token when one is
\* held.
C5_TokenAttachedToEveryCall ==
    lastCall.purpose # "none" => lastCall.header = lastCall.held.accessToken

\* C6 (as amended): a failure other than a first 401 triggers no refresh and
\* no replay, and the caller receives the error of that failed send
\* unmodified; after a first 401 whose refresh fails, the caller receives the
\* refresh's error (the refresh endpoint's failure, or "No refresh token
\* available"), not the 401.
Failed(r) == req[r].pc = "done" /\ req[r].outcome.kind # "body"

LastStatus(r) == req[r].statuses[Len(req[r].statuses)]

FirstUnauthorized(r) ==
    /\ req[r].method \in ClientMethods
    /\ req[r].statuses = <<401>>

\* C6 (as amended): a failed call carries the error of its last send, except
\* after a first 401, where it carries the error of the failed refresh.
C6_FailuresPropagate ==
    \A r \in Reqs :
        Failed(r) =>
            IF FirstUnauthorized(r)
            THEN /\ req[r].outcome \in {RefreshError(r), NoRefreshTokenError}
                 /\ req[r].refreshes = 1
                 /\ req[r].sends = 1
            ELSE /\ req[r].outcome = ErrorOf(r, Len(req[r].statuses), LastStatus(r))
                 /\ req[r].sends = Len(req[r].statuses)
                 /\ req[r].refreshes = Len(req[r].statuses) - 1
                 /\ req[r].refreshCalls = req[r].refreshes

C6_Witness ==
    \E r \in Reqs :
        /\ Failed(r)
        /\ req[r].statuses = <<401, 500>>
        /\ req[r].outcome = HttpError(r, 2, 500)

\* C6 (original): whenever a call fails, the error the caller receives is the
\* error of the failed remote call itself.
C6_CallerGetsCallError ==
    \A r \in Reqs :
        Failed(r) => req[r].outcome = ErrorOf(r, Len(req[r].statuses), LastStatus(r))

(***************************************************************************)
(* Claims about the settings slice, checked under SettingsSpec.            *)
(***************************************************************************)

\* C7: upsert by owner: whatever updateGlobalSettings and saveAmazonCredentials
\* operations have run, overlapping or with a failed existence lookup, each
\* table holds at most one row per user.
C7_OneRowPerUser ==
    \A t \in TableNames, u \in Users : Cardinality(RowsOf(t, u)) <= 1

\* C8: every asynchronous operation follows one pattern: right after its
\* pending action isLoading is true and error is null; right after its
\* fulfilled action isLoading is false; right after its rejected action error
\* is a non-null string and isLoading is false.
C8_UniformThunkPattern ==
    lastEvent.type \in Thunks =>
        /\ lastEvent.phase = "pending" =>
               settings.isLoading /\ settings.error = Null
        /\ lastEvent.phase = "fulfilled" => ~settings.isLoading
        /\ lastEvent.phase = "rejected" =>
               settings.error # Null /\ ~settings.isLoading

\* C9: every caller of a single-row lookup tells "no rows" from the other
\* errors: "no rows" is not a failure, and any other lookup error makes the
\* operation reject without writing.
C9_LookupErrorsDistinguished ==
    \A i \in DOMAIN ops :
        /\ (ops[i].lookup.error = NoRowsError /\ ops[i].thunk \in FetchThunks
                /\ ops[i].pc = "done")
               => ops[i].outcome = "fulfilled"
        /\ ops[i].lookup.error \in Failures =>
               /\ ops[i].wrote = "no"
               /\ ops[i].pc = "done" => ops[i].outcome = "rejected"

\* C10 (as amended): a fetch of settings (or of Amazon credentials) for a user
\* with no row fulfils with null and does not reject: right after it the
\* slice's globalSettings (resp. amazonCredentials) is null and isLoading is
\* false; the fulfilled action leaves error as it was, so error is null unless
\* another fetch of the slice was rejected while this one was in flight.
FetchedNoRow(i) ==
    /\ ops[i].thunk \in FetchThunks
    /\ ops[i].pc \in {"settle", "done"}
    /\ ops[i].matched = 0
    /\ ops[i].lookup.error = NoRowsError

FetchedField(state, thunk) ==
    IF thunk = "fetchGlobalSettings" THEN state.globalSettings
    ELSE state.amazonCredentials

C10_Step ==
    \A i \in DOMAIN ops :
        (FetchedNoRow(i) /\ ops[i].pc = "settle" /\ ops'[i].pc = "done") =>
            /\ ops'[i].outcome = "fulfilled"
            /\ FetchedField(settings', ops[i].thunk) = NoRow
            /\ ~settings'.isLoading
            /\ settings'.error = settings.error

C10_After ==
    \A i \in DOMAIN ops :
        (FetchedNoRow(i) /\ ops[i].pc = "done" /\ lastEvent.op = i) =>
            /\ lastEvent.phase = "fulfilled"
            /\ FetchedField(settings, ops[i].thunk) = NoRow
            /\ ~settings.isLoading
            /\ settings.error # Null =>
                   \E j \in DOMAIN ops :
                       /\ j # i
                       /\ ops[j].thunk \in FetchThunks
                       /\ ops[j].outcome = "rejected"

\* C10 (as amended): every fulfilment of a fetch that found no row is as
\* C10_Step says, and the state right after it is as C10_After says.
C10_FetchWithoutRowFulfilsNull == [][C10_Step]_vars /\ []C10_After

C10_Witness ==
    \E i \in DOMAIN ops :
        /\ FetchedNoRow(i)
        /\ ops[i].pc = "done"
        /\ ops[i].thunk = "fetchGlobalSettings"
        /\ lastEvent = [type |-> "fetchGlobalSettings", phase |-> "fulfilled", op |-> i]
        /\ settings.globalSettings = NoRow
        /\ settings.error # Null

\* C10 (original): after a fetch for a user with no row has completed, the
\* fetched field is null, error is null and isLoading is false.
C10_FetchWithoutRowLeavesNoError ==
    \A i \in DOMAIN ops :
        (FetchedNoRow(i) /\ ops[i].pc = "done" /\ lastEvent.op = i) =>
            /\ lastEvent.phase = "fulfilled"
            /\ FetchedField(settings, ops[i].thunk) = NoRow
            /\ settings.error = Null
            /\ ~settings.isLoading

\* C13: validateShipmentPlan looks the items up in order, one
\* getPrepInstructions call per item reached; after an answer with a
\* non-empty error list, or a rejected call, no later lookup goes out.  It
\* returns false on the first answer with a non-empty error list, returns
\* true exactly when every item was answered and no answer had a non-empty
\* error list (an empty plan returns true with no lookup), and a rejected
\* lookup rejects the validation without a result.
C13_ValidationStopsAtFirstError ==
    LET v == validation
        asked == Len(v.lookups)
        answered == Len(v.answers)
        bad(k) == v.answers[k] \in {"errors", "rejects"}
    IN /\ asked <= Len(v.items)
       /\ \A k \in 1..asked : v.lookups[k] = v.items[k]
       /\ answered <= asked /\ asked <= answered + 1
       /\ \A k \in 1..answered : bad(k) => k = answered /\ asked = answered
       /\ v.pc = "looking" <=> asked = answered + 1
       /\ v.pc = "returned" =>
              /\ v.result \in {"true", "false"}
              /\ v.result = "false" <=>
                     answered > 0 /\ v.answers[answered] = "errors"
              /\ v.result = "true" <=>
                     /\ answered = Len(v.items)
                     /\ \A k \in 1..answered : v.answers[k] # "errors"
              /\ v.items = <<>> => v.result = "true" /\ asked = 0
       /\ v.pc = "rejected" =>
              /\ v.result = Null
              /\ answered > 0 /\ v.answers[answered] = "rejects"

\* A plan of three items whose second item is answered with errors: false
\* is returned and the third item is never looked up.
C13_Witness ==
    /\ validation.pc = "returned"
    /\ validation.result = "false"
    /\ Len(validation.items) = 3
    /\ validation.lookups = SubSeq(validation.items, 1, 2)
    /\ validation.answers = <<"empty_errors", "errors">>

\* C13 as stated: a finished validation has returned true exactly when no
\* answer carried a non-empty error list.
C13_TrueIffNoErrorList ==
    validation.pc \in {"returned", "rejected"} =>
        (validation.result = "true" <=>
             \A k \in 1..Len(validation.answers) : validation.answers[k] # "errors")

\* C16: any two invocations of enforceRateLimit that have returned did so at
\* least rateLimitDelay apart.
C16_ReturnsSpacedByDelay ==
    \A c, d \in Callers :
        (c # d /\ limiter[c].pc = "done" /\ limiter[d].pc = "done") =>
            \/ limiter[c].returned - limiter[d].returned >= rateLimitDelay
            \/ limiter[d].returned - limiter[c].returned >= rateLimitDelay

\* The token the refresh endpoint returned to the refresh that completed last.
LastIssuedToken == FirstIssuedToken + tokensIssued - 1

\* The calls whose refresh has completed successfully.
Refreshed == {r \in Reqs : req[r].refreshCalls = 1 /\ req[r].sends = 2}

\* C14: every call answered 401 runs its own refresh (one refresh response
\* per such call, none shared) and is replayed exactly once after it; the
\* credential set keeps the seller id and refresh token it was set with, and
\* its access token is the one it was set with or the token returned by the
\* refresh that completed last.
C14_OverlappingRefreshes ==
    /\ \A r \in Reqs :
           /\ req[r].refreshCalls <= 1
           /\ req[r].sends <= 2
           /\ req[r].refreshCalls = 1 =>
                  /\ req[r].statuses # <<>> /\ req[r].statuses[1] = 401
                  /\ req[r].pc = "refreshing" => req[r].sends = 1
                  /\ req[r].outcome.kind = "refresh_error" => req[r].sends = 1
                  /\ (req[r].pc # "refreshing" /\ req[r].outcome.kind # "refresh_error")
                         => req[r].sends = 2
           /\ req[r].sends = 2 => req[r].refreshCalls = 1
    /\ tokensIssued = Cardinality(Refreshed)
    /\ \/ credentials = NoCredentials
       \/ \E c \in CredentialSets :
              /\ credentials.sellerId = c.sellerId
              /\ credentials.refreshToken = c.refreshToken
              /\ \/ credentials.accessToken = c.accessToken
                 \/ tokensIssued > 0 /\ credentials.accessToken = LastIssuedToken

\* Two overlapping calls were both answered 401; the refresh of the second
\* completed first, then that of the first; both were replayed once and the
\* credential set holds the token of the later refresh.
C14_Witness ==
    /\ \A r \in Reqs : req[r].refreshCalls = 1 /\ req[r].sends = 2
    /\ req[2].header = FirstIssuedToken
    /\ req[1].header = FirstIssuedToken + 1
    /\ credentials.refreshToken = "rtA"
    /\ credentials.accessToken = FirstIssuedToken + 1

\* C15: when the refresh of a call completes, on success the credential set
\* held gets the returned access token and the expiry and keeps its other
\* fields, and the replay carries the returned token, not the rejected one;
\* on failure the credential set is unchanged and the call is not replayed.
C15_Step ==
    \A r \in Reqs :
        (req[r].pc = "refreshing" /\ req'[r].pc # "refreshing") =>
            IF req'[r].outcome.kind = "refresh_error"
            THEN /\ credentials' = credentials
                 /\ req'[r].pc = "done"
                 /\ req'[r].sends = req[r].sends
            ELSE /\ credentials' =
                        [credentials EXCEPT
                            !.accessToken = FirstIssuedToken + tokensIssued,
                            !.accessTokenExpiry = now + ExpiresIn * 1000]
                 /\ req'[r].pc = "sent"
                 /\ req'[r].sends = req[r].sends + 1
                 /\ req'[r].header = FirstIssuedToken + tokensIssued
                 /\ req'[r].header # req[r].header

C15_RefreshStoresTokenOnly == [][C15_Step]_vars

\* One call was replayed with the token its refresh returned, which the
\* credential set now holds next to its seller id and refresh token; the
\* refresh of the other call failed.
C15_Witness ==
    /\ req[1].sends = 2
    /\ req[1].header = FirstIssuedToken
    /\ credentials = [sellerId |-> "A", refreshToken |-> "rtA",
                      accessToken |-> FirstIssuedToken,
                      accessTokenExpiry |-> now + ExpiresIn * 1000]
    /\ req[2].outcome = RefreshError(2)

(***************************************************************************)
(* Claims about the products and shipments slices.                         *)
(***************************************************************************)
\* In this step the fulfilled action of call i, a thunk of the given name,
\* is dispatched; likewise its rejected action.
Fulfils(i, thunk) ==
    /\ i \in DOMAIN calls
    /\ calls[i].pc = "answered" /\ calls'[i].pc = "completed"
    /\ calls[i].thunk = thunk /\ calls[i].error = Null

Rejects(i, thunk) ==
    /\ i \in DOMAIN calls
    /\ calls[i].pc = "answered" /\ calls'[i].pc = "completed"
    /\ calls[i].thunk = thunk /\ calls[i].error # Null

\* new is old without the entries whose id is d, the rest in their order.
IsRestOf(new, old, d) ==
    LET kept == {k \in 1..Len(old) : old[k].id # d}
    IN /\ Len(new) = Cardinality(kept)
       /\ \A k \in kept : new[Cardinality({j \in kept : j <= k})] = old[k]

\* C11: when deleteProduct is fulfilled for id d, every entry with id d leaves
\* products and the others keep their order; selectedProduct becomes null if
\* its id was d and is unchanged otherwise; bundles, filters, searchQuery,
\* isLoading and error are unchanged.
C11_Step ==
    \A i \in 1..MaxCalls :
        Fulfils(i, "deleteProduct") =>
            LET d == calls[i].payload.id
                old == productsState
                new == productsState'
            IN /\ d = calls[i].arg
               /\ IsRestOf(new.products, old.products, d)
               /\ new.selectedProduct =
                      IF old.selectedProduct.id = d THEN NoItem ELSE old.selectedProduct
               /\ new.bundles = old.bundles
               /\ new.filters = old.filters /\ new.searchQuery = old.searchQuery
               /\ new.isLoading = old.isLoading /\ new.error = old.error

C11_DeleteRemovesById == [][C11_Step]_vars

\* deleteProduct(1) has been fulfilled: of the two fetched products the
\* second is left.
C11_Witness ==
    /\ lastAction = [type |-> "deleteProduct", phase |-> "fulfilled"]
    /\ productsState.products = <<Row(2, "v1")>>
    /\ backend["products"] = {Row(2, "v1")}
    /\ \A i \in DOMAIN calls : calls[i].pc = "completed"

\* new is old with r added at the end, or at the head.
IsOldThen(new, old, r) ==
    /\ Len(new) = Len(old) + 1
    /\ new[Len(new)] = r
    /\ \A k \in 1..Len(old) : new[k] = old[k]

IsOldAfter(new, old, r) ==
    /\ Len(new) = Len(old) + 1
    /\ new[1] = r
    /\ \A k \in 1..Len(old) : new[k + 1] = old[k]

Collections ==
    <<productsState.products, productsState.bundles,
      shipmentsState.shipments, shipmentsState.shipmentPlans>>

\* C12: a fulfilled create adds its row as one entry and leaves the entries
\* there and their order alone: createShipment and createShipmentPlan at the
\* head of shipments and shipmentPlans, createProduct and createBundle at
\* the end of products and bundles; a rejected create leaves every
\* collection unchanged.
C12_Step ==
    \A i \in 1..MaxCalls :
        LET r == calls[i].payload.row
        IN /\ Fulfils(i, "createProduct") =>
                  IsOldThen(productsState'.products, productsState.products, r)
           /\ Fulfils(i, "createBundle") =>
                  IsOldThen(productsState'.bundles, productsState.bundles, r)
           /\ Fulfils(i, "createShipment") =>
                  IsOldAfter(shipmentsState'.shipments, shipmentsState.shipments, r)
           /\ Fulfils(i, "createShipmentPlan") =>
                  IsOldAfter(shipmentsState'.shipmentPlans, shipmentsState.shipmentPlans, r)
           /\ \A thunk \in {"createProduct", "createBundle", "createShipment",
                             "createShipmentPlan"} :
                  /\ Fulfils(i, thunk) => r # NoItem
                  /\ Rejects(i, thunk) => Collections' = Collections

C12_CreateAddsOneEntry == [][C12_Step]_vars

\* createShipment has been fulfilled after the two shipments were fetched:
\* the new shipment is at the head, the fetched ones follow in their order.
C12_Witness ==
    /\ lastAction = [type |-> "createShipment", phase |-> "fulfilled"]
    /\ shipmentsState.shipments = <<Row(3, "v1"), Row(2, "v1"), Row(1, "v1")>>

\* new is old with r in place of the first entry that has r's id, and old
\* itself when no entry has it.
IsOldWith(new, old, r) ==
    LET found == {k \in 1..Len(old) : old[k].id = r.id}
    IN /\ Len(new) = Len(old)
       /\ \A k \in 1..Len(old) :
              new[k] = IF k \in found /\ \A j \in found : k <= j THEN r ELSE old[k]

\* C17: when updateProduct or updateShipmentStatus is fulfilled with record
\* r, the entry of the collection with r's id (the first, should several
\* have it) is replaced by r at its index and every other entry is
\* unchanged; with no such entry the collection is unchanged and r is not
\* added; the length never changes; the selected record is replaced by r
\* exactly when its id is r's.
C17_Step ==
    \A i \in 1..MaxCalls :
        LET r == calls[i].payload.row
        IN /\ Fulfils(i, "updateProduct") =>
                  /\ r # NoItem
                  /\ IsOldWith(productsState'.products, productsState.products, r)
                  /\ productsState'.selectedProduct =
                         IF productsState.selectedProduct.id = r.id
                         THEN r ELSE productsState.selectedProduct
           /\ Fulfils(i, "updateShipmentStatus") =>
                  /\ r # NoItem
                  /\ IsOldWith(shipmentsState'.shipments, shipmentsState.shipments, r)
                  /\ shipmentsState'.selectedShipment =
                         IF shipmentsState.selectedShipment.id = r.id
                         THEN r ELSE shipmentsState.selectedShipment

C17_UpdateReplacesInPlace == [][C17_Step]_vars

\* updateProduct(2) has been fulfilled after the two products were fetched:
\* the second entry is the updated record, the first is as fetched.
C17_Witness ==
    /\ lastAction = [type |-> "updateProduct", phase |-> "fulfilled"]
    /\ productsState.products = <<Row(1, "v1"), Row(2, "v2")>>

\* C19: while a fetchProducts thunk has not completed, isLoading of the
\* products slice is true; likewise fetchShipments and the shipments slice.
C19_LoadingWhileFetchPending ==
    /\ (\E i \in DOMAIN calls :
            calls[i].thunk = "fetchProducts" /\ calls[i].pc # "completed")
           => productsState.isLoading
    /\ (\E i \in DOMAIN calls :
            calls[i].thunk = "fetchShipments" /\ calls[i].pc # "completed")
           => shipmentsState.isLoading

\* No two entries of the list have the same id.
DistinctIds(list) ==
    \A j, k \in 1..Len(list) : list[j].id = list[k].id => j = k

\* C20: products never holds two entries with the same id, nor does
\* shipments.
C20_NoDuplicateIds ==
    /\ DistinctIds(productsState.products)
    /\ DistinctIds(shipmentsState.shipments)

\* C18: in the auth slice isAuthenticated is true exactly when user is not
\* null.
C18_AuthenticatedIffUser == auth.isAuthenticated <=> auth.user # Null

\* C21: an access token obtained with the refresh token of one credential
\* set is stored only in that set: whenever the set held carries the token
\* that the refresh of some call returned, its refresh token is the one that
\* refresh sent.
C21_TokenStoredInSetThatSentIt ==
    \A r \in Reqs :
        (/\ req[r].refreshCalls = 1 /\ req[r].sends = 2
         /\ req[r].header >= FirstIssuedToken
         /\ credentials.accessToken = req[r].header)
            => credentials.refreshToken = req[r].rtSent

====
